---- MODULE Spec2Model ----
(***************************************************************************)
(* A model of the scroll-driven 3D portfolio page.                         *)
(*                                                                         *)
(* The repository holds two page scripts:                                  *)
(*   - src/unnamed/part_000: the main scene (camera rig, crystal fade,     *)
(*     frame loop) with its own inline copy of the "top GLB" header        *)
(*     overlay (topGLBState, loadTopGLB, updateTopGLB, ...);               *)
(*   - src/top-glb-loader.js: the stand-alone overlay module (_topGLB,     *)
(*     _headerCanvas, ...), driven by whatever host imports it.            *)
(* part_000 does not import top-glb-loader.js, so a page runs one of the   *)
(* two; the variable `script` says which.  The variables of the script     *)
(* that is not running keep their initial values.                          *)
(*                                                                         *)
(* JavaScript numbers are modelled as exact rationals <<n, d>> (d > 0, in  *)
(* lowest terms); a division by zero yields the JS values NaN / Infinity.  *)
(* The particle buffer, the pointer repulsion and the rotations are not    *)
(* modelled.                                                               *)
(***************************************************************************)
EXTENDS Integers, Sequences, FiniteSets, TLC

(***************************************************************************)
(* Exact rational arithmetic.                                              *)
(***************************************************************************)
Abs(n) == IF n < 0 THEN -n ELSE n

RECURSIVE GCD(_, _)
GCD(a, b) == IF b = 0 THEN a ELSE GCD(b, a % b)

\* n/d in lowest terms with a positive denominator (d # 0)
Rat(n, d) ==
  LET g == GCD(Abs(n), Abs(d))
      s == IF d < 0 THEN -1 ELSE 1
  IN  <<(s * n) \div g, (s * d) \div g>>

Zero == <<0, 1>>
One == <<1, 1>>
Two == <<2, 1>>
Three == <<3, 1>>
Half == <<1, 2>>

RAdd(a, b) ==
  LET l == (a[2] \div GCD(a[2], b[2])) * b[2]
  IN  Rat(a[1] * (l \div a[2]) + b[1] * (l \div b[2]), l)
RNeg(a) == <<-a[1], a[2]>>
RSub(a, b) == RAdd(a, RNeg(b))
RMul(a, b) ==
  LET g1 == GCD(Abs(a[1]), b[2])
      g2 == GCD(Abs(b[1]), a[2])
  IN  Rat((a[1] \div g1) * (b[1] \div g2), (a[2] \div g2) * (b[2] \div g1))
\* b # 0
RDiv(a, b) == RMul(a, IF b[1] < 0 THEN <<-b[2], -b[1]>> ELSE <<b[2], b[1]>>)
RLt(a, b) == a[1] * b[2] < b[1] * a[2]
RLe(a, b) == a[1] * b[2] <= b[1] * a[2]
RMin(a, b) == IF RLe(a, b) THEN a ELSE b
RMax(a, b) == IF RLe(a, b) THEN b ELSE a
In01(a) == RLe(Zero, a) /\ RLe(a, One)

\* a JS number: a finite value, or the result of a division by zero
Num(r) == [k |-> "num", v |-> r]
NaN == [k |-> "NaN", v |-> Zero]
Infinity == [k |-> "Infinity", v |-> Zero]
\* a / b for finite a >= 0, b >= 0, as IEEE-754 gives it
JSDiv(a, b) ==
  IF b[1] # 0 THEN Num(RDiv(a, b))
  ELSE IF a[1] = 0 THEN NaN ELSE Infinity

(***************************************************************************)
(* Inputs from the browser.                                                *)
(***************************************************************************)
\* what a scroll event may see: <<raw scroll offset, scrollHeight - viewport
\* height>> in pixels, on a page that scrolls by 20 and on one that does not
\* scroll at all, overscroll (an offset below 0 or beyond the extent) included
ScrollEvents ==
  { <<y, 20>> : y \in {-1, 0, 1, 4, 10, 15, 20, 30} }
    \cup { <<y, 0>> : y \in {-1, 0, 1} }
\* Box3.setFromObject(object).getSize(): <<size.x, size.y>> of an object with
\* no geometry and of a real one
BoxSizes == { <<Zero, Zero>>, <<Rat(2, 1), Rat(4, 1)>> }
\* Clock.getDelta(): seconds since the previous call
Deltas == { Zero, Rat(1, 16), Rat(1, 4) }
\* what a scroll-progress getter given by the host may return
HostScrollValues == { Rat(-1, 2), Rat(1, 20), Rat(3, 2) }
\* loadTopGLB calls that may be suspended at the same time
MaxPendingLoads == 1
\* updates in a row that may move the opacity only part of the way to its
\* target (each one doubles the denominators)
MaxEaseSteps == 1
\* canvases or listeners of one kind that may pile up
MaxRegistrations == 2
\* header.getBoundingClientRect(): zero width, zero height, two real boxes
Rects ==
  { [left |-> 0, top |-> 0, width |-> 0, height |-> 40],
    [left |-> 0, top |-> 0, width |-> 100, height |-> 0],
    [left |-> 0, top |-> 0, width |-> 100, height |-> 40],
    [left |-> 10, top |-> 5, width |-> 200, height |-> 80] }

VARIABLES
  script,          \* which of the two scripts the page runs
  scrollTop,       \* raw scroll offset seen by the latest scroll event
  scrollExtent,    \* scrollHeight - viewport height seen by that event
  threw,           \* a per-frame operation dereferenced null (TypeError)
  warned,          \* console.warn was called
  \* ---- src/unnamed/part_000
  scrollProgress,  \* let scrollProgress
  cameraPosition,  \* camera.position
  frame,           \* locals of the latest animate() call
  layoutResult,    \* path the latest updateTopGLBHeaderCanvasLayout took
  mainRender,      \* whether the latest animate() reached the composers
  overlayRender,   \* path the latest renderTopGLBHeaderCanvas took
  envLoad,         \* the HDR environment load
  crystalLoad,     \* the ./voidanium.glb load
  topLoad,         \* the loadAsync of loadTopGLB
  sceneEnvironment,\* scene.environment is set
  worldCrystal,    \* let worldCrystal and its material
  topGLBState,     \* const topGLBState
  \* ---- src/top-glb-loader.js
  _scrollProgress, \* let _scrollProgress
  scrollBound,     \* window.__topGLBScrollBound
  getterOverridden,\* _getScrollProgress was replaced by the host's function
  pendingLoads,    \* loadTopGLB calls suspended at their await
  easeSteps,       \* updates since the opacity last sat on its target
  _topGLB,         \* const _topGLB
  _headerCanvas,   \* const _headerCanvas
  \* ---- what the page holds on behalf of the overlay
  overlayCanvases, \* overlay canvases in the document, each with a renderer
  scrollListeners, \* 'scroll' listeners that store the scroll progress
  layoutListeners  \* resize (and scroll) listeners that serve the layout

loaderVars ==
  <<_scrollProgress, scrollBound, getterOverridden, pendingLoads, easeSteps,
    _topGLB, _headerCanvas>>
mainVars ==
  <<scrollProgress, cameraPosition, frame, layoutResult, mainRender,
    overlayRender, envLoad, crystalLoad, topLoad, sceneEnvironment,
    worldCrystal, topGLBState>>
pageVars == <<script, scrollTop, scrollExtent, threw, warned>>
domVars == <<overlayCanvases, scrollListeners, layoutListeners>>
vars == <<pageVars, mainVars, loaderVars, domVars>>

(***************************************************************************)
(* src/unnamed/part_000: the main scene.                                   *)
(***************************************************************************)
camState1 == <<Rat(0, 1), Rat(0, 1), Rat(15, 1)>>
camState2 == <<Rat(14, 1), Rat(-3, 1), Rat(8, 1)>>
camState3 == <<Rat(0, 1), Rat(0, 1), Rat(18, 1)>>

\* Vector3.lerpVectors(v1, v2, alpha): v1 + (v2 - v1) * alpha
lerpVectors(v1, v2, alpha) ==
  [i \in 1..3 |-> RAdd(v1[i], RMul(RSub(v2[i], v1[i]), alpha))]

\* const topGLBState = {...}: a null field is a FALSE flag.  modelScale is
\* [unit, q]: the scale is q (unit "1") or q * sqrt(3) (unit "sqrt3", from
\* dividing by 2 * tan(30 deg) * camera.position.z = 10 / sqrt(3)).
topGLBStateInit ==
  [ scene |-> FALSE, camera |-> FALSE, cameraAspect |-> Num(One),
    renderer |-> FALSE, rendererSize |-> <<300, 150>>,
    model |-> FALSE, modelVisible |-> TRUE,
    modelScale |-> [unit |-> "1", q |-> Num(One)],
    headerEl |-> FALSE, canvasEl |-> FALSE, canvasOpacity |-> One,
    fit |-> "height", fitAmount |-> Rat(55, 100),
    scrollGetter |-> "zero" ]

frameInit ==
  [ ran |-> FALSE, scroll |-> Zero, animProgress |-> Zero, pInterp |-> Zero,
    camSrc |-> camState1, camDst |-> camState2,
    pSrc |-> "formation1", pDst |-> "formation2",
    crystal |-> FALSE, overlay |-> FALSE ]

\* the window 'scroll' listener
MainScrollValue(y, h, old) == IF h > 0 THEN Rat(y, h) ELSE old

MainScroll ==
  /\ script = "main"
  /\ \E e \in ScrollEvents :
       /\ scrollTop' = e[1]
       /\ scrollExtent' = e[2]
       /\ scrollProgress' = MainScrollValue(e[1], e[2], scrollProgress)
  /\ UNCHANGED <<script, threw, warned>>
  /\ UNCHANGED <<cameraPosition, frame, layoutResult, mainRender,
                 overlayRender, envLoad, crystalLoad, topLoad,
                 sceneEnvironment, worldCrystal, topGLBState>>
  /\ UNCHANGED loaderVars
  /\ UNCHANGED domVars

\* async loadTopGLB, from the resolution of loader.loadAsync on
MainLoadTopGLB(st, initialScale, environment) ==
  [st EXCEPT !.scene = TRUE, !.camera = TRUE, !.cameraAspect = Num(One),
             !.model = TRUE, !.modelVisible = TRUE,
             !.modelScale = [unit |-> "1", q |-> Num(initialScale)]]

MainSetScrollProgressGetter(st) == [st EXCEPT !.scrollGetter = "scrollProgress"]

\* topGLBUseHeaderCanvas(headerId, config); found: getElementById's answer
MainUseHeaderCanvas(st, found, fit, fitAmount) ==
  IF ~found THEN [st EXCEPT !.headerEl = FALSE]
  ELSE [st EXCEPT !.headerEl = TRUE, !.fit = fit, !.fitAmount = fitAmount,
                  !.canvasEl = TRUE, !.canvasOpacity = One,
                  !.renderer = TRUE, !.rendererSize = <<300, 150>>]

\* the overlay canvases after topGLBUseHeaderCanvas: createElement('canvas'),
\* prepend and new WebGLRenderer run whenever the header is found
MainCanvasCount(found, n) == IF found THEN n + 1 ELSE n

\* x / aspect for a finite x >= 0
DivByAspect(x, aspect) ==
  IF aspect.k = "NaN" THEN NaN
  ELSE IF aspect.k = "Infinity" THEN Num(Zero)
  ELSE JSDiv(x, aspect.v)

\* updateTopGLBHeaderCanvasLayout(): [st, threw, result]
MainLayout(st, rect) ==
  IF ~st.renderer \/ ~st.headerEl
  THEN [st |-> st, threw |-> FALSE, result |-> "noop"]
  ELSE
    LET sized == [st EXCEPT !.rendererSize = <<rect.width, rect.height>>]
        aspect == JSDiv(Rat(rect.width, 1), Rat(rect.height, 1))
        withCam == [sized EXCEPT !.cameraAspect = aspect]
        scale ==
          IF st.fit = "height"
          THEN [unit |-> "sqrt3",
                q |-> Num(RDiv(RMul(Rat(rect.height, 1), st.fitAmount),
                               Rat(10, 1)))]
          ELSE [unit |-> "1",
                q |-> DivByAspect(RMul(Rat(rect.width, 1), st.fitAmount),
                                  aspect)]
    IN  IF ~st.camera
        THEN [st |-> sized, threw |-> TRUE, result |-> "threw"]
        ELSE IF ~st.model
        THEN [st |-> withCam, threw |-> TRUE, result |-> "threw"]
        ELSE [st |-> [withCam EXCEPT !.modelScale = scale],
              threw |-> FALSE, result |-> "fit"]

\* the opacity updateTopGLB({ showAt, fullAt }) computes
MainOverlayOpacity(scroll, showAt, fullAt) ==
  RMax(Zero, RDiv(RSub(scroll, showAt), RSub(fullAt, showAt)))

\* updateTopGLB({ showAt, fullAt }): [st, threw, wrote]
MainUpdateTopGLB(st, current, showAt, fullAt) ==
  IF ~st.model THEN [st |-> st, threw |-> FALSE, wrote |-> FALSE]
  ELSE
    LET scroll == IF st.scrollGetter = "zero" THEN Zero ELSE current
        opacity == MainOverlayOpacity(scroll, showAt, fullAt)
        shown == [st EXCEPT !.modelVisible = RLt(Zero, opacity)]
    IN  IF ~st.renderer
        THEN [st |-> shown, threw |-> FALSE, wrote |-> FALSE]
        ELSE IF ~st.canvasEl
        THEN [st |-> shown, threw |-> TRUE, wrote |-> FALSE]
        ELSE [st |-> [shown EXCEPT !.canvasOpacity = opacity],
              threw |-> FALSE, wrote |-> TRUE]

\* renderTopGLBHeaderCanvas(): [threw, result]
MainRenderHeaderCanvas(st) ==
  IF ~st.renderer \/ ~st.model \/ ~st.modelVisible
  THEN [threw |-> FALSE, result |-> "noop"]
  ELSE IF ~st.scene \/ ~st.camera
  THEN [threw |-> TRUE, result |-> "threw"]
  ELSE [threw |-> FALSE, result |-> "drawn"]

\* CrystalFade with visible = (animProgress <= 1.0)
CrystalFade_VisibleAtOne(animProgress) ==
  [opacity |-> RSub(One, animProgress), visible |-> RLe(animProgress, One)]

\* the crystal fade of animate(): [opacity, visible]
CrystalFade(animProgress) ==
  [opacity |-> RSub(One, animProgress), visible |-> RLt(animProgress, One)]

\* Blend with the segment test scrollProgress <= .5
Blend_SplitAfterHalf(s) ==
  [ ran |-> TRUE, scroll |-> s,
    animProgress |-> RMin(RDiv(s, Rat(2, 10)), One),
    pInterp |-> IF RLe(s, Half) THEN RMul(s, Two) ELSE RMul(RSub(s, Half), Two),
    camSrc |-> IF RLe(s, Half) THEN camState1 ELSE camState2,
    camDst |-> IF RLe(s, Half) THEN camState2 ELSE camState3,
    pSrc |-> IF RLe(s, Half) THEN "formation1" ELSE "formation2",
    pDst |-> IF RLe(s, Half) THEN "formation2" ELSE "formation3",
    crystal |-> FALSE, overlay |-> FALSE ]

\* the two-stage blend of animate(): the locals computed from scrollProgress
\* (crystal: the if (worldCrystal) branch ran; overlay: updateTopGLB set the
\* canvas opacity; both are filled in by Animate)
Blend(s) ==
  [ ran |-> TRUE, scroll |-> s,
    animProgress |-> RMin(RDiv(s, Rat(2, 10)), One),
    pInterp |-> IF RLt(s, Half) THEN RMul(s, Two) ELSE RMul(RSub(s, Half), Two),
    camSrc |-> IF RLt(s, Half) THEN camState1 ELSE camState2,
    camDst |-> IF RLt(s, Half) THEN camState2 ELSE camState3,
    pSrc |-> IF RLt(s, Half) THEN "formation1" ELSE "formation2",
    pDst |-> IF RLt(s, Half) THEN "formation2" ELSE "formation3",
    crystal |-> FALSE, overlay |-> FALSE ]

\* rgbeLoader.load(..., onLoad): the environment arrives, the crystal load starts
EnvLoaded ==
  /\ script = "main"
  /\ envLoad = "pending"
  /\ envLoad' = "loaded"
  /\ sceneEnvironment' = TRUE
  /\ crystalLoad' = "pending"
  /\ UNCHANGED <<scrollProgress, cameraPosition, frame, layoutResult,
                 mainRender, overlayRender, topLoad,
                 worldCrystal, topGLBState>>
  /\ UNCHANGED <<pageVars, loaderVars>>
  /\ UNCHANGED domVars

\* rgbeLoader.load has no onError: nothing runs
EnvFailed ==
  /\ script = "main"
  /\ envLoad = "pending"
  /\ envLoad' = "failed"
  /\ UNCHANGED <<scrollProgress, cameraPosition, frame, layoutResult,
                 mainRender, overlayRender,
                 crystalLoad, topLoad, sceneEnvironment, worldCrystal,
                 topGLBState>>
  /\ UNCHANGED <<pageVars, loaderVars>>
  /\ UNCHANGED domVars

\* loader.load('./voidanium.glb', async (gltf) => ...) up to its await
CrystalLoaded ==
  /\ script = "main"
  /\ crystalLoad = "pending"
  /\ crystalLoad' = "loaded"
  /\ worldCrystal' = [loaded |-> TRUE, opacity |-> One, visible |-> TRUE]
  /\ topLoad' = "pending"
  /\ UNCHANGED <<scrollProgress, cameraPosition, frame, layoutResult,
                 mainRender, overlayRender, envLoad,
                 sceneEnvironment, topGLBState>>
  /\ UNCHANGED <<pageVars, loaderVars>>
  /\ UNCHANGED domVars

\* CrystalFailed going on to the overlay load as if the crystal had arrived
CrystalFailed_StartsOverlay ==
  /\ script = "main"
  /\ crystalLoad = "pending"
  /\ crystalLoad' = "failed"
  /\ topLoad' = "pending"
  /\ UNCHANGED <<scrollProgress, cameraPosition, frame, layoutResult,
                 mainRender, overlayRender, envLoad,
                 sceneEnvironment, worldCrystal, topGLBState>>
  /\ UNCHANGED <<pageVars, loaderVars>>
  /\ UNCHANGED domVars

\* loader.load has no onError: nothing runs
CrystalFailed ==
  /\ script = "main"
  /\ crystalLoad = "pending"
  /\ crystalLoad' = "failed"
  /\ UNCHANGED <<scrollProgress, cameraPosition, frame, layoutResult,
                 mainRender, overlayRender, envLoad,
                 topLoad, sceneEnvironment, worldCrystal, topGLBState>>
  /\ UNCHANGED <<pageVars, loaderVars>>
  /\ UNCHANGED domVars

\* loadAsync resolves: the rest of loadTopGLB, then the rest of the callback
TopLoaded ==
  /\ script = "main"
  /\ topLoad = "pending"
  /\ topLoad' = "loaded"
  /\ \E found \in BOOLEAN :
       /\ topGLBState' =
            MainUseHeaderCanvas(
              MainSetScrollProgressGetter(
                MainLoadTopGLB(topGLBState, One, sceneEnvironment)),
              found, "height", Rat(55, 100))
       /\ overlayCanvases' = MainCanvasCount(found, overlayCanvases)
  /\ UNCHANGED <<scrollListeners, layoutListeners>>
  /\ UNCHANGED <<scrollProgress, cameraPosition, frame, layoutResult,
                 mainRender, overlayRender, envLoad,
                 crystalLoad, sceneEnvironment, worldCrystal>>
  /\ UNCHANGED <<pageVars, loaderVars>>

\* loadAsync rejects: loadTopGLB and the callback end there
TopFailed ==
  /\ script = "main"
  /\ topLoad = "pending"
  /\ topLoad' = "failed"
  /\ UNCHANGED <<scrollProgress, cameraPosition, frame, layoutResult,
                 mainRender, overlayRender, envLoad,
                 crystalLoad, sceneEnvironment, worldCrystal, topGLBState>>
  /\ UNCHANGED <<pageVars, loaderVars>>
  /\ UNCHANGED domVars

\* one animate() call, the header's rectangle being rect;
\* requestAnimationFrame(animate) is its first statement, so the next call
\* is scheduled whatever the rest does
AnimateSees(rect) ==
  /\ script = "main"
  /\ \E f \in {Blend(scrollProgress)},
        upd \in {MainUpdateTopGLB(topGLBState, scrollProgress,
                                  Rat(1, 100), Rat(12, 100))} :
       \E fade \in {CrystalFade(f.animProgress)},
          lay \in {MainLayout(upd.st, rect)} :
       \E ren \in {MainRenderHeaderCanvas(lay.st)} :
           /\ frame' = [f EXCEPT !.crystal = worldCrystal.loaded,
                                 !.overlay = upd.wrote]
           /\ cameraPosition' = lerpVectors(f.camSrc, f.camDst, f.pInterp)
           /\ worldCrystal' =
                IF worldCrystal.loaded
                THEN [loaded |-> TRUE, opacity |-> fade.opacity,
                      visible |-> fade.visible]
                ELSE worldCrystal
           /\ topGLBState' = IF upd.threw THEN upd.st ELSE lay.st
           /\ layoutResult' = IF upd.threw THEN layoutResult ELSE lay.result
           /\ mainRender' =
                IF upd.threw \/ lay.threw THEN "skipped" ELSE "drawn"
           /\ overlayRender' =
                IF upd.threw \/ lay.threw THEN overlayRender ELSE ren.result
           /\ threw' = (threw \/ upd.threw \/ lay.threw \/ ren.threw)
  /\ UNCHANGED <<script, scrollTop, scrollExtent, warned>>
  /\ UNCHANGED <<scrollProgress, envLoad, crystalLoad, topLoad,
                 sceneEnvironment>>
  /\ UNCHANGED loaderVars
  /\ UNCHANGED domVars

Animate == \E rect \in Rects : AnimateSees(rect)

\* the window 'resize' listener, the header's rectangle being rect
MainResizeSees(rect) ==
  /\ script = "main"
  /\ \E lay \in {MainLayout(topGLBState, rect)} :
       /\ topGLBState' = lay.st
       /\ layoutResult' = lay.result
       /\ threw' = (threw \/ lay.threw)
  /\ UNCHANGED <<script, scrollTop, scrollExtent, warned>>
  /\ UNCHANGED <<scrollProgress, cameraPosition, frame, mainRender,
                 overlayRender, envLoad, crystalLoad, topLoad,
                 sceneEnvironment, worldCrystal>>
  /\ UNCHANGED loaderVars
  /\ UNCHANGED domVars

MainResize == \E rect \in Rects : MainResizeSees(rect)

(***************************************************************************)
(* src/top-glb-loader.js: the stand-alone overlay module.                  *)
(***************************************************************************)
_topGLBInit == [object |-> FALSE, ready |-> FALSE, opacity |-> Zero]

\* const _headerCanvas = {...}: a null field is a FALSE flag; display, style,
\* rendererSize, frustum and pivotScale are the canvas's style, the
\* renderer's size, the camera's left/right/top/bottom and the pivot's scale.
\* needsLayout is written (by the layout listeners, by the layout) and never
\* read: it is left out, and with it the listeners that only set it.
_headerCanvasInit ==
  [ enabled |-> FALSE, renderer |-> FALSE, scene |-> FALSE, camera |-> FALSE,
    canvas |-> FALSE, pivot |-> FALSE, headerEl |-> FALSE,
    fit |-> "height", fitAmount |-> Rat(9, 10),
    display |-> "",
    style |-> [left |-> 0, top |-> 0, width |-> 300, height |-> 150],
    rendererSize |-> <<300, 150>>,
    frustum |-> <<Rat(-1, 1), Rat(1, 1), Rat(1, 1), Rat(-1, 1)>>,
    pivotScale |-> One ]

clamp01(x) == RMin(One, RMax(Zero, x))
smoothstep(t) ==
  CHOOSE r \in { RMul(RMul(c, c), RSub(Three, RMul(Two, c)))
                 : c \in {clamp01(t)} } : TRUE

\* a || b on numbers: a unless it is 0
OrElse(a, b) == IF a # 0 THEN a ELSE b

\* the listener of attachInternalScrollIfNeeded
LoaderScrollValue(docTop, bodyTop, h) ==
  LET top == OrElse(OrElse(docTop, bodyTop), 0)
      max == IF h > 1 THEN h ELSE 1
  IN  clamp01(Rat(top, max))

\* a 'scroll' event reaching the internal listener (the document element
\* scrolls, document.body.scrollTop is 0)
LoaderScroll ==
  /\ script = "loader"
  /\ scrollBound
  /\ \E e \in ScrollEvents :
       /\ scrollTop' = e[1]
       /\ scrollExtent' = e[2]
       /\ _scrollProgress' = LoaderScrollValue(e[1], 0, e[2])
  /\ UNCHANGED <<script, threw, warned>>
  /\ UNCHANGED <<scrollBound, getterOverridden, pendingLoads, easeSteps,
                 _topGLB, _headerCanvas>>
  /\ UNCHANGED mainVars
  /\ UNCHANGED domVars

\* setTopGLBScrollProgressGetter(fn)
SetTopGLBScrollProgressGetter ==
  /\ script = "loader"
  /\ \E isFunction \in BOOLEAN :
       getterOverridden' = (getterOverridden \/ isFunction)
  /\ UNCHANGED <<pageVars, mainVars>>
  /\ UNCHANGED <<_scrollProgress, scrollBound, pendingLoads, easeSteps,
                 _topGLB, _headerCanvas>>
  /\ UNCHANGED domVars

\* attachInternalScrollIfNeeded(): the scroll-progress listeners after it
AttachInternalScroll(bound, n) == IF bound THEN n ELSE n + 1

\* loadTopGLB(...) up to its await
LoadTopGLBCall ==
  /\ script = "loader"
  /\ pendingLoads < MaxPendingLoads
  /\ scrollListeners < MaxRegistrations
  /\ scrollBound' = TRUE
  /\ scrollListeners' = AttachInternalScroll(scrollBound, scrollListeners)
  /\ UNCHANGED <<overlayCanvases, layoutListeners>>
  /\ pendingLoads' = pendingLoads + 1
  /\ UNCHANGED <<pageVars, mainVars>>
  /\ UNCHANGED <<_scrollProgress, getterOverridden, easeSteps, _topGLB,
                 _headerCanvas>>

\* what loadTopGLB publishes once the GLB has arrived
Publish(glb) == [glb EXCEPT !.object = TRUE, !.ready = TRUE, !.opacity = Zero]


\* loadAsync resolves: the rest of loadTopGLB; a GLB without a scene throws
LoadTopGLBResolved ==
  /\ script = "loader"
  /\ pendingLoads > 0
  /\ pendingLoads' = pendingLoads - 1
  /\ \E hasScene \in BOOLEAN :
       _topGLB' = IF hasScene THEN Publish(_topGLB) ELSE _topGLB
  /\ UNCHANGED <<pageVars, mainVars>>
  /\ UNCHANGED <<_scrollProgress, scrollBound, getterOverridden, easeSteps,
                 _headerCanvas>>
  /\ UNCHANGED domVars

\* loadAsync rejects: loadTopGLB rejects
LoadTopGLBRejected ==
  /\ script = "loader"
  /\ pendingLoads > 0
  /\ pendingLoads' = pendingLoads - 1
  /\ UNCHANGED <<pageVars, mainVars>>
  /\ UNCHANGED <<_scrollProgress, scrollBound, getterOverridden, easeSteps,
                 _topGLB, _headerCanvas>>
  /\ UNCHANGED domVars

\* the target opacity of updateTopGLB for scroll progress sp
TargetOpacity(sp, showAt, fullAt) ==
  LET span == RSub(fullAt, showAt)
      t == IF RLe(sp, showAt) THEN Zero
           ELSE IF RLe(fullAt, sp) THEN One
           ELSE RDiv(RSub(sp, showAt), RMax(Rat(1, 1000000), span))
  IN  smoothstep(t)

\* _topGLB.opacity += (targetOpacity - _topGLB.opacity) * min(1, delta * speed)
Ease(opacity, target, delta, lerpSpeed) ==
  RAdd(opacity,
       RMul(RSub(target, opacity), RMin(One, RMul(delta, lerpSpeed))))

\* whether updateTopGLB does anything
UpdateReady(glb) == glb.ready /\ glb.object

\* updateTopGLB(options) with the default options
UpdateTopGLB ==
  /\ script = "loader"
  /\ \E delta \in Deltas,
        got \in (IF getterOverridden THEN HostScrollValues
                                     ELSE {_scrollProgress}) :
       IF ~UpdateReady(_topGLB)
       THEN UNCHANGED <<_topGLB, easeSteps>>
       ELSE
         \E target \in {TargetOpacity(clamp01(got), Rat(1, 100),
                                      Rat(12, 100))} :
         \E new \in {Ease(_topGLB.opacity, target, delta, Rat(8, 1))} :
         \E partial \in {new # target /\ new # _topGLB.opacity} :
           /\ partial => easeSteps < MaxEaseSteps
           /\ _topGLB' = [_topGLB EXCEPT !.opacity = new]
           /\ easeSteps' = IF partial THEN easeSteps + 1
                           ELSE IF new = target THEN 0 ELSE easeSteps
  /\ UNCHANGED <<pageVars, mainVars>>
  /\ UNCHANGED <<_scrollProgress, scrollBound, getterOverridden, pendingLoads,
                 _headerCanvas>>
  /\ UNCHANGED domVars

\* _initHeaderCanvas(envMap)
InitHeaderCanvas(hc) ==
  [hc EXCEPT !.renderer = TRUE, !.canvas = TRUE, !.scene = TRUE,
             !.camera = TRUE, !.pivot = TRUE]

\* topGLBUseHeaderCanvas(headerSelectorOrEl, options) past its two guards
UseHeaderCanvas(hc, fit, fitAmount) ==
  [(IF hc.renderer THEN hc ELSE InitHeaderCanvas(hc))
     EXCEPT !.headerEl = TRUE, !.fit = fit, !.fitAmount = fitAmount,
            !.enabled = TRUE]

\* InitOnce without the _headerCanvas.renderer test
InitOnce_Unguarded(hc, n) == n + 1

\* what _initHeaderCanvas creates once (a renderer with its canvas appended
\* to the body, a pair of resize / scroll listeners): the count after
\* if (!_headerCanvas.renderer) _initHeaderCanvas(...)
InitOnce(hc, n) == IF hc.renderer THEN n ELSE n + 1

\* topGLBUseHeaderCanvas(headerSelectorOrEl, options): found is whether the
\* selector or element resolves to an element
TopGLBUseHeaderCanvas ==
  /\ script = "loader"
  /\ \E found \in BOOLEAN, fit \in {"height", "width"} :
       IF ~_topGLB.object \/ ~found
       THEN /\ warned' = TRUE
            /\ UNCHANGED <<_headerCanvas, overlayCanvases, layoutListeners>>
       ELSE /\ _headerCanvas' = UseHeaderCanvas(_headerCanvas, fit, Rat(9, 10))
            /\ overlayCanvases' = InitOnce(_headerCanvas, overlayCanvases)
            /\ layoutListeners' = InitOnce(_headerCanvas, layoutListeners)
            /\ UNCHANGED warned
  /\ overlayCanvases < MaxRegistrations
  /\ UNCHANGED scrollListeners
  /\ UNCHANGED <<script, scrollTop, scrollExtent, threw>>
  /\ UNCHANGED mainVars
  /\ UNCHANGED <<_scrollProgress, scrollBound, getterOverridden, pendingLoads,
                 easeSteps, _topGLB>>

\* LayoutReady without the enabled and object tests
LayoutReady_Unguarded(hc, glb) == TRUE

\* whether updateTopGLBHeaderCanvasLayout does anything
LayoutReady(hc, glb) == hc.enabled /\ hc.headerEl /\ glb.object

\* whether the header rectangle can be laid out
RectVisible(rect) == rect.width > 0 /\ rect.height > 0

\* the pivot scale for a header rectangle and the object's box size
FitScale(hc, rect, size) ==
  IF hc.fit = "height" /\ RLt(Zero, size[2])
  THEN RDiv(RMul(Rat(rect.height, 1), hc.fitAmount), size[2])
  ELSE IF hc.fit = "width" /\ RLt(Zero, size[1])
  THEN RDiv(RMul(Rat(rect.width, 1), hc.fitAmount), size[1])
  ELSE One

\* updateTopGLBHeaderCanvasLayout(): [hc, threw, result]
LoaderLayout(hc, glb, rect, size) ==
  IF ~LayoutReady(hc, glb)
  THEN [hc |-> hc, threw |-> FALSE, result |-> "noop"]
  ELSE IF ~hc.canvas
  THEN [hc |-> hc, threw |-> TRUE, result |-> "threw"]
  ELSE IF ~RectVisible(rect)
  THEN [hc |-> [hc EXCEPT !.display = "none"], threw |-> FALSE,
        result |-> "hidden"]
  ELSE
    LET styled == [hc EXCEPT !.display = "block",
                     !.style = [left |-> rect.left, top |-> rect.top,
                                width |-> rect.width, height |-> rect.height]]
        sized == [styled EXCEPT !.rendererSize = <<rect.width, rect.height>>]
        framed == [sized EXCEPT !.frustum =
                     << Rat(-rect.width, 2), Rat(rect.width, 2),
                        Rat(rect.height, 2), Rat(-rect.height, 2) >>]
    IN  IF ~hc.renderer
        THEN [hc |-> styled, threw |-> TRUE, result |-> "threw"]
        ELSE IF ~hc.camera
        THEN [hc |-> sized, threw |-> TRUE, result |-> "threw"]
        ELSE IF ~hc.pivot
        THEN [hc |-> framed, threw |-> TRUE, result |-> "threw"]
        ELSE [hc |-> [framed EXCEPT !.pivotScale = FitScale(hc, rect, size)],
              threw |-> FALSE, result |-> "fit"]

\* updateTopGLBHeaderCanvasLayout(), the header's rectangle being rect and
\* the object's box size being size
LayoutSees(rect, size) ==
  /\ script = "loader"
  /\ \E lay \in {LoaderLayout(_headerCanvas, _topGLB, rect, size)} :
       /\ _headerCanvas' = lay.hc
       /\ threw' = (threw \/ lay.threw)
  /\ UNCHANGED <<script, scrollTop, scrollExtent, warned>>
  /\ UNCHANGED mainVars
  /\ UNCHANGED <<_scrollProgress, scrollBound, getterOverridden, pendingLoads,
                 easeSteps, _topGLB>>
  /\ UNCHANGED domVars

UpdateTopGLBHeaderCanvasLayout ==
  \E rect \in Rects, size \in BoxSizes : LayoutSees(rect, size)

\* renderTopGLBHeaderCanvas(): [threw, result]
LoaderRender(hc) ==
  IF ~hc.enabled THEN [threw |-> FALSE, result |-> "noop"]
  ELSE IF ~hc.renderer THEN [threw |-> TRUE, result |-> "threw"]
  ELSE [threw |-> FALSE, result |-> "drawn"]

RenderTopGLBHeaderCanvas ==
  /\ script = "loader"
  /\ \E ren \in {LoaderRender(_headerCanvas)} :
       threw' = (threw \/ ren.threw)
  /\ UNCHANGED <<script, scrollTop, scrollExtent, warned>>
  /\ UNCHANGED <<mainVars, loaderVars>>
  /\ UNCHANGED domVars

Init ==
  /\ script \in {"main", "loader"}
  /\ scrollTop = 0
  /\ scrollExtent = 0
  /\ threw = FALSE
  /\ warned = FALSE
  /\ layoutResult = "none"
  /\ overlayRender = "none"
  /\ scrollProgress = Zero
  /\ cameraPosition = <<Rat(0, 1), Rat(0, 1), Rat(12, 1)>>
  /\ frame = frameInit
  /\ mainRender = "none"
  /\ envLoad = "pending"
  /\ crystalLoad = "idle"
  /\ topLoad = "idle"
  /\ sceneEnvironment = FALSE
  /\ worldCrystal = [loaded |-> FALSE, opacity |-> One, visible |-> TRUE]
  /\ topGLBState = topGLBStateInit
  /\ _scrollProgress = Zero
  /\ scrollBound = FALSE
  /\ getterOverridden = FALSE
  /\ pendingLoads = 0
  /\ easeSteps = 0
  /\ _topGLB = _topGLBInit
  /\ _headerCanvas = _headerCanvasInit
  /\ overlayCanvases = 0
  /\ scrollListeners = (IF script = "main" THEN 1 ELSE 0)
  /\ layoutListeners = (IF script = "main" THEN 1 ELSE 0)

Next ==
  \/ MainScroll
  \/ EnvLoaded
  \/ EnvFailed
  \/ CrystalLoaded
  \/ CrystalFailed
  \/ TopLoaded
  \/ TopFailed
  \/ Animate
  \/ MainResize
  \/ LoaderScroll
  \/ SetTopGLBScrollProgressGetter
  \/ LoadTopGLBCall
  \/ LoadTopGLBResolved
  \/ LoadTopGLBRejected
  \/ UpdateTopGLB
  \/ TopGLBUseHeaderCanvas
  \/ UpdateTopGLBHeaderCanvasLayout
  \/ RenderTopGLBHeaderCanvas

Spec == Init /\ [][Next]_vars

(***************************************************************************)
(* The claims.                                                             *)
(***************************************************************************)

\* C1 (as claimed): after every frame tick, whatever the scroll fraction, the
\* opacity given to the crystal and the opacity given to the overlay (the
\* canvas of part_000, the model of top-glb-loader.js) both lie in [0, 1].
C1_OpacitiesIn01 ==
  /\ (script = "main" /\ frame.crystal) => In01(worldCrystal.opacity)
  /\ (script = "main" /\ frame.overlay) => In01(topGLBState.canvasOpacity)
  /\ script = "loader" => In01(_topGLB.opacity)

\* C2 (as claimed): in every reachable state the stored scroll fraction that
\* the frame callback reads lies in [0, 1].
C2_StoredFractionIn01 ==
  /\ script = "main" => In01(scrollProgress)
  /\ script = "loader" => In01(_scrollProgress)

\* max(1, h)
Max1(h) == IF h > 1 THEN h ELSE 1

\* C3 (as claimed, for raw offsets within the scroll extent): the stored
\* scroll fraction is scrollTop / max(1, scrollHeight - viewport height) of
\* the latest scroll event, also when the page does not scroll.
C3_FractionOfLatestEvent ==
  (0 <= scrollTop /\ scrollTop <= Max1(scrollExtent)) =>
    /\ script = "main" => scrollProgress = Rat(scrollTop, Max1(scrollExtent))
    /\ (script = "loader" /\ scrollBound) =>
         _scrollProgress = Rat(scrollTop, Max1(scrollExtent))

\* (1 - p) * a + p * b, componentwise
Mix(a, b, p) ==
  [i \in 1..3 |-> RAdd(RMul(RSub(One, p), a[i]), RMul(p, b[i]))]

\* C4: for a scroll fraction s in [0, 1], a frame tick blends (W1, F1) ->
\* (W2, F2) with p = 2s when s < 1/2 and (W2, F2) -> (W3, F3) with
\* p = 2(s - 1/2) when s >= 1/2; p lies in [0, 1], at s = 1/2 the second pair
\* is active with p = 0, and the camera is at lerp(source, destination, p).
C4_TwoStageBlend ==
  (script = "main" /\ frame.ran /\ In01(frame.scroll)) =>
    /\ RLt(frame.scroll, Half) =>
         /\ frame.pInterp = RMul(Two, frame.scroll)
         /\ frame.camSrc = camState1 /\ frame.camDst = camState2
         /\ frame.pSrc = "formation1" /\ frame.pDst = "formation2"
    /\ RLe(Half, frame.scroll) =>
         /\ frame.pInterp = RMul(Two, RSub(frame.scroll, Half))
         /\ frame.camSrc = camState2 /\ frame.camDst = camState3
         /\ frame.pSrc = "formation2" /\ frame.pDst = "formation3"
    /\ In01(frame.pInterp)
    /\ frame.scroll = Half => frame.pInterp = Zero
    /\ cameraPosition = Mix(frame.camSrc, frame.camDst, frame.pInterp)

\* a tick at s = 1/2 exactly: the second pair, p = 0, the camera on W2
C4_Witness ==
  /\ script = "main" /\ frame.ran /\ frame.scroll = Half
  /\ frame.pInterp = Zero /\ frame.camSrc = camState2
  /\ cameraPosition = camState2

\* C5: in a frame tick that finds the crystal loaded, its opacity is
\* 1 - min(s / 0.2, 1) and it is visible exactly when that opacity is > 0:
\* opaque and visible at s = 0, transparent and not visible from s = 0.2 on;
\* it stays loaded, so a later tick below 0.2 shows it again.
C5_CrystalFade ==
  /\ (script = "main" /\ crystalLoad = "loaded") => worldCrystal.loaded
  /\ (script = "main" /\ frame.crystal) =>
    /\ worldCrystal.loaded
    /\ worldCrystal.opacity =
         RSub(One, RMin(RDiv(frame.scroll, Rat(1, 5)), One))
    /\ worldCrystal.visible <=> RLt(Zero, worldCrystal.opacity)
    /\ frame.scroll = Zero =>
         (worldCrystal.opacity = One /\ worldCrystal.visible)
    /\ RLe(Rat(1, 5), frame.scroll) =>
         (worldCrystal.opacity = Zero /\ ~worldCrystal.visible)
    /\ RLt(frame.scroll, Rat(1, 5)) => worldCrystal.visible

\* a tick at s = 1 with the crystal loaded: transparent and not rendered
C5_Witness ==
  /\ script = "main" /\ frame.crystal /\ frame.scroll = One
  /\ worldCrystal.opacity = Zero /\ ~worldCrystal.visible

\* the target opacity as claimed: smoothstep of the clamped linear ramp
ClaimedTarget(s, showAt, fullAt) ==
  LET t == IF RLe(s, showAt) THEN Zero
           ELSE IF RLe(fullAt, s) THEN One
           ELSE RDiv(RSub(s, showAt), RSub(fullAt, showAt))
  IN  RMul(RMul(t, t), RSub(Three, RMul(Two, t)))

\* C6 (as claimed): the overlay opacity a frame tick aims at for the scroll
\* fraction s is smoothstep(t), t being 0 up to showAt = 0.01, 1 from
\* fullAt = 0.12 on and (s - showAt) / (fullAt - showAt) in between; it is
\* exactly 1 at s = 1 and exactly 0 at s = 0.
C6_TargetIsSmoothstep ==
  /\ ClaimedTarget(Zero, Rat(1, 100), Rat(12, 100)) = Zero
  /\ ClaimedTarget(One, Rat(1, 100), Rat(12, 100)) = One
  /\ (script = "main" /\ frame.overlay) =>
       topGLBState.canvasOpacity =
         ClaimedTarget(frame.scroll, Rat(1, 100), Rat(12, 100))
  /\ (script = "loader" /\ UpdateReady(_topGLB) /\ ~getterOverridden) =>
       TargetOpacity(clamp01(_scrollProgress), Rat(1, 100), Rat(12, 100)) =
         ClaimedTarget(_scrollProgress, Rat(1, 100), Rat(12, 100))

\* C7: no per-frame operation (opacity update, layout, render) touches a
\* model, camera or renderer that is not there: none of them throws, each is
\* a no-op until its load has completed, and what the readiness conditions
\* test is published together with what the operation then uses.
C7_NoUseBeforePublish ==
  /\ ~threw
  /\ script = "main" =>
       /\ ~worldCrystal.loaded =>
            (~frame.crystal /\ worldCrystal.opacity = One)
       /\ ~topGLBState.model =>
            /\ topGLBState = topGLBStateInit
            /\ ~frame.overlay
            /\ layoutResult \in {"none", "noop"}
            /\ overlayRender \in {"none", "noop"}
       /\ topGLBState.model => (topGLBState.scene /\ topGLBState.camera)
       /\ topGLBState.renderer =>
            /\ topGLBState.model /\ topGLBState.canvasEl
            /\ topGLBState.headerEl
       /\ (topLoad # "loaded") => ~topGLBState.model
       /\ (crystalLoad # "loaded") => ~worldCrystal.loaded
  /\ script = "loader" =>
       /\ _topGLB.ready <=> _topGLB.object
       /\ ~_topGLB.object =>
            (_topGLB.opacity = Zero /\ _headerCanvas = _headerCanvasInit)
       /\ _headerCanvas.enabled =>
            /\ _headerCanvas.renderer /\ _headerCanvas.canvas
            /\ _headerCanvas.camera /\ _headerCanvas.pivot
            /\ _headerCanvas.scene /\ _headerCanvas.headerEl
            /\ _topGLB.object

\* a frame tick that ran while the overlay load was in flight: the crystal
\* was faded, the overlay operations did nothing
C7_Witness ==
  /\ script = "main" /\ frame.ran /\ frame.crystal /\ topLoad = "pending"
  /\ layoutResult = "noop" /\ overlayRender = "noop" /\ ~threw

\* C8 (as claimed): once no load is in flight, whatever failed, every asset
\* that did not itself fail is loaded and active.
C8_FailureIsLocal ==
  (script = "main" /\ envLoad # "pending" /\ crystalLoad # "pending"
     /\ topLoad # "pending") =>
    /\ envLoad # "failed" => sceneEnvironment
    /\ crystalLoad # "failed" => worldCrystal.loaded
    /\ topLoad # "failed" => topGLBState.model

\* C8 (amended): the loads are chained environment -> crystal -> overlay.  A
\* failed load leaves its own asset and the assets after it in the chain
\* inactive (they are never requested); the assets before it stay active and
\* the frame loop keeps running and drawing the main scene.
C8_FailureStopsTheChain ==
  script = "main" =>
    /\ envLoad = "failed" =>
         /\ crystalLoad = "idle" /\ topLoad = "idle"
         /\ ~sceneEnvironment /\ ~worldCrystal.loaded /\ ~topGLBState.model
    /\ crystalLoad = "failed" =>
         /\ topLoad = "idle"
         /\ sceneEnvironment /\ ~worldCrystal.loaded /\ ~topGLBState.model
    /\ topLoad = "failed" =>
         /\ sceneEnvironment /\ worldCrystal.loaded /\ ~topGLBState.model
    /\ frame.ran => (mainRender = "drawn" /\ ~threw)

\* the crystal load failed, and a later frame tick drew the main scene with
\* the environment in place
C8_Witness ==
  /\ script = "main" /\ crystalLoad = "failed" /\ topLoad = "idle"
  /\ sceneEnvironment /\ frame.ran /\ mainRender = "drawn"

\* C9 (as claimed): when the header element is not found a warning is
\* logged, nothing throws, the overlay stays disabled, the overlay layout and
\* render of every later tick are no-ops and the main scene keeps rendering.
C9_MissingHeaderWarns ==
  /\ (script = "main" /\ topLoad = "loaded" /\ ~topGLBState.headerEl) =>
       /\ warned
       /\ ~threw
       /\ ~topGLBState.renderer
       /\ layoutResult \in {"none", "noop"}
       /\ overlayRender \in {"none", "noop"}
       /\ frame.ran => mainRender = "drawn"
  /\ (script = "loader" /\ ~_headerCanvas.enabled) => ~threw

\* C10 (as claimed): no renderer size, camera shape or scale is ever computed
\* from a header rectangle of zero width or zero height, and a canvas laid
\* out from a rectangle has that rectangle's position and size.
C10_ZeroRectIsSkipped ==
  /\ script = "main" =>
       /\ topGLBState.rendererSize[1] > 0 /\ topGLBState.rendererSize[2] > 0
       /\ topGLBState.cameraAspect.k = "num"
       /\ RLt(Zero, topGLBState.cameraAspect.v)
       /\ topGLBState.modelScale.q.k = "num"
       /\ RLt(Zero, topGLBState.modelScale.q.v)
  /\ script = "loader" =>
       /\ _headerCanvas.rendererSize[1] > 0
       /\ _headerCanvas.rendererSize[2] > 0
       /\ _headerCanvas.style.width > 0 /\ _headerCanvas.style.height > 0
       /\ RLt(Zero, _headerCanvas.pivotScale)

\* whether x lies between a and b (either order)
Between(a, x, b) == (RLe(a, x) /\ RLe(x, b)) \/ (RLe(b, x) /\ RLe(x, a))

\* |a - b|
Dist(a, b) == IF RLe(a, b) THEN RSub(b, a) ELSE RSub(a, b)

\* what C11 says of one overlay update that takes old to new with the target
\* and the elapsed time delta, at the rate lerpSpeed
EasedStep(old, new, target, delta, lerpSpeed) ==
  /\ new = RAdd(old, RMul(RSub(target, old),
                          RMin(One, RMul(delta, lerpSpeed))))
  /\ Between(old, new, target)
  /\ RLe(One, RMul(delta, lerpSpeed)) => new = target
  /\ RLe(Dist(new, target), Dist(old, target))

\* C11 (as claimed): every overlay update, delta seconds after the previous
\* one, moves the overlay opacity from old to
\* old + (target - old) * min(1, delta * lerpSpeed) with lerpSpeed = 8: it
\* stays between old and target, reaches the target when
\* delta * lerpSpeed >= 1 and never moves away from the target.  A frame tick
\* of the main script reads no elapsed time for the overlay, so whatever
\* time has elapsed the same step is taken.
C11_OpacityIsEased ==
  [][ /\ (Animate /\ frame'.overlay) =>
           \A delta \in Deltas :
             EasedStep(topGLBState.canvasOpacity,
                       topGLBState'.canvasOpacity,
                       MainOverlayOpacity(frame'.scroll, Rat(1, 100),
                                          Rat(12, 100)),
                       delta, Rat(8, 1))
      /\ (UpdateTopGLB /\ UpdateReady(_topGLB)) =>
           \E delta \in Deltas,
              got \in HostScrollValues \cup {_scrollProgress} :
             EasedStep(_topGLB.opacity, _topGLB'.opacity,
                       TargetOpacity(clamp01(got), Rat(1, 100),
                                     Rat(12, 100)),
                       delta, Rat(8, 1)) ]_vars

\* C12: whatever loadTopGLB and topGLBUseHeaderCanvas calls were made,
\* repeated ones included, the page holds at most one overlay canvas (with
\* its renderer), at most one scroll-progress listener and at most one set
\* of layout listeners; each exists exactly when the state says it was set up.
C12_AtMostOneOfEach ==
  /\ overlayCanvases <= 1
  /\ scrollListeners <= 1
  /\ layoutListeners <= 1
  /\ script = "main" =>
       (overlayCanvases = 1 <=> topGLBState.renderer)
  /\ script = "loader" =>
       /\ overlayCanvases = 1 <=> _headerCanvas.renderer
       /\ layoutListeners = overlayCanvases
       /\ scrollListeners = 1 <=> scrollBound

\* loadTopGLB was called again after a load that published the object, and
\* topGLBUseHeaderCanvas succeeded twice (with fit 'height', which the scale
\* 9 of a 40 high header over a 4 high object shows, then with fit 'width'):
\* there is still one canvas and one of each listener
C12_Witness ==
  /\ script = "loader"
  /\ pendingLoads = 1 /\ _topGLB.object
  /\ _headerCanvas.enabled /\ _headerCanvas.fit = "width"
  /\ _headerCanvas.pivotScale = Rat(9, 1)
  /\ overlayCanvases = 1 /\ scrollListeners = 1 /\ layoutListeners = 1
====
